---- MODULE Spec2Model ----
(***************************************************************************)
(* Model of src/server.js: an Express application that answers CORS        *)
(* preflights on /proxy and forwards every other request on /proxy to the  *)
(* destination named by the request, through http-proxy-middleware.        *)
(*                                                                         *)
(* Strings are sequences of tokens.  A token is a run of characters that   *)
(* no modelled operation looks into; the separators the code acts on       *)
(* (",", " ", ":", "//", "?", "#") are tokens of their own, so that         *)
(* split, trim, toLowerCase and URL parsing are computed, not assumed.     *)
(* The empty string is <<>>.                                               *)
(*                                                                         *)
(* A JavaScript value is a record [kind, s]: a string, an array (what the  *)
(* query parser yields for a repeated key; s is its String() form) or      *)
(* undefined.  Objects with string keys (req.query, req.headers, the       *)
(* response headers) are functions whose DOMAIN is the set of keys set.    *)
(*                                                                         *)
(* All modelled requests target the entry path /proxy and carry no JSON    *)
(* body; request logging has no effect on the exchange.                    *)
(***************************************************************************)
EXTENDS Naturals, Sequences, FiniteSets, TLC

VARIABLES
    env,        \* process.env: PROXY_TOKEN, HEADERS_TO_DELETE, RESPONSE_HEADERS_TO_DELETE
    pc,         \* position of the request in the middleware stack
    client,     \* the request as the client sent it: method, query, headers
    headers,    \* req.headers, mutated by the middlewares
    gate,       \* outcome of checkApiKeyMiddleware for this request
    routerCalls,\* number of calls of corsProxyOptions.router for this request
    finishHook, \* a 'finish' listener was registered on res
    upstream,   \* the request issued to the destination, if any
    proxyRes,   \* the upstream's response headers as received (ordered pairs)
    res,        \* the response to the client: status, headers, sent
    errorLog,   \* number of errors logged by onError
    crashed     \* an exception escaped every handler: the process is gone

vars == <<env, pc, client, headers, gate, routerCalls, finishHook, upstream,
          proxyRes, res, errorLog, crashed>>

----------------------------------------------------------------------------
(* JavaScript values *)

Str(s) == [kind |-> "string", s |-> s]
Arr(s) == [kind |-> "array", s |-> s]
Undefined == [kind |-> "undefined", s |-> <<>>]
EmptyString == Str(<<>>)

\* obj[key]
Get(obj, key) == IF key \in DOMAIN obj THEN obj[key] ELSE Undefined

\* obj[key] = value
Put(obj, key, value) ==
    [k \in DOMAIN obj \cup {key} |-> IF k = key THEN value ELSE obj[k]]

\* delete obj[key]
Delete(obj, key) == [k \in DOMAIN obj \ {key} |-> obj[k]]

EmptyObject == [k \in {} |-> Undefined]

\* ToBoolean: undefined and '' are falsy, every array is truthy
Truthy(v) == \/ v.kind = "array"
             \/ v.kind = "string" /\ v.s # <<>>

\* a || b
Or(a, b) == IF Truthy(a) THEN a ELSE b

\* a !== b, for b a string
StrictNotEqual(a, b) == ~(a.kind = "string" /\ b.kind = "string" /\ a.s = b.s)

----------------------------------------------------------------------------
(* String operations *)

\* String.prototype.toLowerCase on one token: the mixed-case tokens of the model
LowerToken(t) ==
    CASE t = "Accept" -> "accept"
      [] t = "Origin" -> "origin"
      [] t = "Access-Control-Allow-Origin" -> "access-control-allow-origin"
      [] t = "Access-Control-Allow-Methods" -> "access-control-allow-methods"
      [] t = "Access-Control-Allow-Headers" -> "access-control-allow-headers"
      [] t = "Access-Control-Max-Age" -> "access-control-max-age"
      [] t = "X-Forwarded-For" -> "x-forwarded-for"
      [] t = "API.Example.com" -> "api.example.com"
      [] t = "HTTP" -> "http"
      [] OTHER -> t

ToLowerCase(s) == [i \in 1..Len(s) |-> LowerToken(s[i])]

\* The property key a one-token string names; a longer string names no header
\* any request or response of the model carries.
NoSuchKey == "<no such key>"
Key(s) == IF Len(s) = 1 THEN s[1] ELSE NoSuchKey

\* String.prototype.split(','): the pieces between the commas; ''.split(',') is ['']
RECURSIVE SplitFrom(_, _, _)
SplitFrom(s, i, piece) ==
    IF i > Len(s) THEN <<piece>>
    ELSE IF s[i] = "," THEN <<piece>> \o SplitFrom(s, i + 1, <<>>)
    ELSE SplitFrom(s, i + 1, Append(piece, s[i]))

Split(s) == SplitFrom(s, 1, <<>>)

\* String.prototype.trim: drop leading and trailing whitespace
RECURSIVE TrimStart(_)
TrimStart(s) == IF s # <<>> /\ Head(s) = " " THEN TrimStart(Tail(s)) ELSE s

RECURSIVE TrimEnd(_)
TrimEnd(s) == IF s # <<>> /\ s[Len(s)] = " "
              THEN TrimEnd(SubSeq(s, 1, Len(s) - 1)) ELSE s

Trim(s) == TrimEnd(TrimStart(s))

\* (value || '').split(',').map(header => header.trim()), as a set of strings
SplitTrim(s) == {Trim(Split(s)[i]) : i \in 1..Len(Split(s))}

----------------------------------------------------------------------------
(* new URL(url): the WHATWG parser on http(s) URLs                          *)
(*   scheme ":" "//" host [":" port] [path] ["?" [query]] ["#" [fragment]]   *)

URLDelimiters == {":", "//", "?", "#", ",", " "}

DefaultPort(scheme) == IF scheme = "https" THEN "443" ELSE "80"

\* new URL(s) does not throw
URLParses(s) ==
    /\ Len(s) >= 4
    /\ LowerToken(s[1]) \in {"http", "https"}
    /\ s[2] = ":"
    /\ s[3] = "//"
    /\ s[4] \notin URLDelimiters

URLHasPort(s) == Len(s) >= 6 /\ s[5] = ":" /\ s[6] \notin URLDelimiters

\* index of the first token after the authority
URLAfterAuthority(s) == IF URLHasPort(s) THEN 7 ELSE 5

URLHasPath(s) ==
    /\ URLAfterAuthority(s) <= Len(s)
    /\ s[URLAfterAuthority(s)] \notin URLDelimiters

\* index of the first token after the path
URLAfterPath(s) ==
    IF URLHasPath(s) THEN URLAfterAuthority(s) + 1 ELSE URLAfterAuthority(s)

\* URLOrigin without the port
M_URLOriginNoPort(s) == <<LowerToken(s[1]), ":", "//", LowerToken(s[4])>>

\* new URL(s).origin
URLOrigin(s) ==
    <<LowerToken(s[1]), ":", "//", LowerToken(s[4])>>
    \o (IF URLHasPort(s) /\ s[6] # DefaultPort(LowerToken(s[1]))
        THEN <<":", s[6]>> ELSE <<>>)

\* new URL(s).pathname
URLPathname(s) == IF URLHasPath(s) THEN <<s[URLAfterAuthority(s)]>> ELSE <<"/">>

\* new URL(s).search: '' for no query and for an empty one
URLSearch(s) ==
    IF /\ URLAfterPath(s) + 1 <= Len(s)
       /\ s[URLAfterPath(s)] = "?"
       /\ s[URLAfterPath(s) + 1] \notin URLDelimiters
    THEN <<"?", s[URLAfterPath(s) + 1]>>
    ELSE <<>>

----------------------------------------------------------------------------
(* process.env: an unset variable and an empty one are both falsy, and     *)
(* every use in the code is `process.env.X || ''` or a truth test, so an   *)
(* unset variable is the empty string.                                     *)

Secret == <<"s1">>

Environments ==
    [PROXY_TOKEN : {<<>>, Secret},
     HEADERS_TO_DELETE : {<<>>, <<"x-url-destination", ",", " ", "Origin">>},
     RESPONSE_HEADERS_TO_DELETE : {<<>>, <<"x-powered-by">>}]

----------------------------------------------------------------------------
(* The requests clients send.  Node lower-cases the names of the headers   *)
(* it receives; query keys keep their case.  Every request carries an      *)
(* `accept` header; at most MaxSignals further headers and query           *)
(* parameters are present.                                                 *)

MaxSignals == 3

Methods == {"GET", "OPTIONS"}

DestinationA == <<"https", ":", "//", "api.example.com", "/items", "?", "id=7">>
DestinationB == <<"http", ":", "//", "other.test", ":", "8080", "/v1">>
DestinationC == <<"HTTP", ":", "//", "API.Example.com", ":", "80", "/Items",
                  "?", "a=1&b=2", "#", "top">>
NotAURL == <<"not-a-url">>

HeaderChoices ==
    [h \in {"origin", "access-control-request-method",
            "access-control-request-headers", "x-proxy-token",
            "x-url-destination", "headers-to-delete", "x-headers-delete",
            "x-forwarded-for"} |->
       CASE h = "origin" -> {Str(<<"https://app.test">>)}
         [] h = "access-control-request-method" -> {Str(<<"PUT">>)}
         [] h = "access-control-request-headers" -> {Str(<<"X-Api-Version">>)}
         [] h = "x-proxy-token" -> {Str(Secret), Str(<<"wrong">>)}
         [] h = "x-url-destination" -> {Str(DestinationB), Str(NotAURL)}
         [] h = "headers-to-delete" ->
                {Str(<<"Accept">>),
                 Str(<<"origin", ",", " ", "x-url-destination">>)}
         [] h = "x-headers-delete" -> {Str(<<"accept">>)}
         [] h = "x-forwarded-for" -> {Str(<<"10.0.0.7">>)}]

QueryChoices ==
    [k \in {"url", "token", "headers-delete", "Accept", "headers-to-delete"} |->
       CASE k = "url" -> {Str(DestinationA), Str(DestinationC), Str(NotAURL)}
         [] k = "token" -> {Str(Secret), Str(<<"wrong">>), EmptyString}
         [] k = "headers-delete" ->
                {Str(<<"Accept">>),
                 Str(<<"headers-delete", ",", "x-url-destination">>),
                 Arr(<<"accept", ",", "origin">>)}
         [] k = "Accept" -> {Str(<<"text/plain">>)}
         [] k = "headers-to-delete" -> {Str(<<"x-forwarded-for">>)}]

Signals == ({"h"} \X DOMAIN HeaderChoices) \cup ({"q"} \X DOMAIN QueryChoices)

SignalChoices(sig) ==
    IF sig[1] = "h" THEN HeaderChoices[sig[2]] ELSE QueryChoices[sig[2]]

RECURSIVE Assignments(_)
Assignments(S) ==
    IF S = {} THEN {EmptyObject}
    ELSE LET sig == CHOOSE x \in S : TRUE
         IN  {Put(f, sig, v) : f \in Assignments(S \ {sig}),
                               v \in SignalChoices(sig)}

BaseHeaders == [h \in {"accept"} |-> Str(<<"application/json">>)]

MakeRequest(method, f) ==
    [method  |-> method,
     query   |-> [k \in {sig[2] : sig \in {x \in DOMAIN f : x[1] = "q"}} |->
                    f[<<"q", k>>]],
     headers |-> [h \in DOMAIN BaseHeaders
                        \cup {sig[2] : sig \in {x \in DOMAIN f : x[1] = "h"}} |->
                    IF <<"h", h>> \in DOMAIN f THEN f[<<"h", h>>]
                    ELSE BaseHeaders[h]]]

Requests ==
    {MakeRequest(m, f) :
        m \in Methods,
        f \in UNION {Assignments(S) :
                        S \in {T \in SUBSET Signals : Cardinality(T) <= MaxSignals}}}

NoRequest == [method |-> "", query |-> EmptyObject, headers |-> EmptyObject]

----------------------------------------------------------------------------
(* urlParamsToHeadersMiddleware: every query parameter but `url` and       *)
(* `token` becomes the request header of its lower-cased name.  The query  *)
(* keys of the model stay distinct when lower-cased, so the order of       *)
(* Object.entries does not matter.                                         *)

FoldedKeys(query) ==
    {k \in DOMAIN query : LowerToken(k) # "url" /\ LowerToken(k) # "token"}

UrlParamsToHeaders(query, hdrs) ==
    [h \in DOMAIN hdrs \cup {LowerToken(k) : k \in FoldedKeys(query)} |->
        IF \E k \in FoldedKeys(query) : LowerToken(k) = h
        THEN query[CHOOSE k \in FoldedKeys(query) : LowerToken(k) = h]
        ELSE hdrs[h]]

----------------------------------------------------------------------------
(* checkApiKeyMiddleware *)

\* RequestToken reading the header before the query parameter
M_RequestToken(query, hdrs) == Or(Get(hdrs, "x-proxy-token"), Get(query, "token"))

\* const token = req.query.token || req.headers['x-proxy-token']
RequestToken(query, hdrs) == Or(Get(query, "token"), Get(hdrs, "x-proxy-token"))

\* ApiKeyDenied without the test that a secret is configured
M_ApiKeyDenied(query, hdrs, e) ==
    StrictNotEqual(RequestToken(query, hdrs), Str(e.PROXY_TOKEN))

\* process.env.PROXY_TOKEN && token !== process.env.PROXY_TOKEN
ApiKeyDenied(query, hdrs, e) ==
    /\ Truthy(Str(e.PROXY_TOKEN))
    /\ StrictNotEqual(RequestToken(query, hdrs), Str(e.PROXY_TOKEN))

----------------------------------------------------------------------------
(* deleteRequestHeadersMiddleware *)

\* headers['headers-to-delete'] || headers['x-headers-delete'] || ''
HeaderDeleteList(hdrs) ==
    Or(Or(Get(hdrs, "headers-to-delete"), Get(hdrs, "x-headers-delete")),
       EmptyString)

\* req.query['headers-delete'] || ''
QueryDeleteList(query) == Or(Get(query, "headers-delete"), EmptyString)

\* .split is not a function of an array: the middleware throws a TypeError
DeleteRequestHeadersThrows(query, hdrs) ==
    \/ HeaderDeleteList(hdrs).kind # "string"
    \/ QueryDeleteList(query).kind # "string"

RequestHeadersToDelete(query, hdrs, e) ==
    SplitTrim(HeaderDeleteList(hdrs).s)
    \cup SplitTrim(QueryDeleteList(query).s)
    \cup SplitTrim(e.HEADERS_TO_DELETE)

\* the forEach of deletions, then the two deletions of the carriers
DeleteRequestHeaders(query, hdrs, e) ==
    [h \in DOMAIN hdrs
           \ ({Key(ToLowerCase(name)) :
                  name \in RequestHeadersToDelete(query, hdrs, e)}
              \cup {"headers-to-delete", "x-headers-delete"}) |-> hdrs[h]]

----------------------------------------------------------------------------
(* corsProxyOptions *)

\* const url = req.query.url || req.headers['x-url-destination']
DestinationURL(query, hdrs) == Or(Get(query, "url"), Get(hdrs, "x-url-destination"))

\* router throws: no URL, or new URL(url) throws
RouterThrows(query, hdrs) ==
    \/ ~Truthy(DestinationURL(query, hdrs))
    \/ ~URLParses(DestinationURL(query, hdrs).s)

\* router: new URL(url).origin
Router(query, hdrs) == URLOrigin(DestinationURL(query, hdrs).s)

\* PathRewrite reading the header before the query parameter
M_PathRewriteHeaderFirst(query, hdrs) ==
    LET url == Or(Get(hdrs, "x-url-destination"), Get(query, "url"))
    IN  URLPathname(url.s) \o URLSearch(url.s)

\* pathRewrite: new URL(url).pathname + new URL(url).search
PathRewrite(query, hdrs) ==
    URLPathname(DestinationURL(query, hdrs).s)
    \o URLSearch(DestinationURL(query, hdrs).s)

\* ProxyReqRemoved without the destination header
M_ProxyReqRemoved == {"x-forwarded-host", "x-forwarded-proto", "x-forwarded-for"}

\* onProxyReq: the headers removed from the outgoing request
ProxyReqRemoved ==
    {"x-forwarded-host", "x-forwarded-proto", "x-forwarded-for", "x-url-destination"}

\* OnProxyReq removing the Origin header as well
M_OnProxyReq(outgoing) ==
    [h \in DOMAIN outgoing \ (ProxyReqRemoved \cup {"origin"}) |-> outgoing[h]]

OnProxyReq(outgoing) == [h \in DOMAIN outgoing \ ProxyReqRemoved |-> outgoing[h]]

\* An object with ordered keys, as a sequence of <<key, value>>: obj[key] = value
\* replaces the value of an existing key in place and appends a new key.
HasKey(pairs, key) == \E i \in 1..Len(pairs) : pairs[i][1] = key

Assign(pairs, key, value) ==
    IF HasKey(pairs, key)
    THEN [i \in 1..Len(pairs) |->
            IF pairs[i][1] = key THEN <<key, value>> ELSE pairs[i]]
    ELSE Append(pairs, <<key, value>>)

DefaultAllowMethods ==
    <<"GET", ",", "POST", ",", "PUT", ",", "PATCH", ",", "DELETE", ",", "OPTIONS">>

DefaultAllowHeaders ==
    <<"Origin", ",", " ", "Content-Type", ",", " ", "Accept", ",", " ",
      "Authorization">>

\* req.headers[name] || fallback, as the string written to a response header
HeaderOr(hdrs, name, fallback) == Or(Get(hdrs, name), Str(fallback)).s

\* onProxyRes: the three assignments to proxyRes.headers
OnProxyRes(pairs, hdrs) ==
    Assign(
      Assign(
        Assign(pairs, "Access-Control-Allow-Origin",
               HeaderOr(hdrs, "origin", <<"*">>)),
        "Access-Control-Allow-Methods",
        HeaderOr(hdrs, "access-control-request-method", DefaultAllowMethods)),
      "Access-Control-Allow-Headers",
      HeaderOr(hdrs, "access-control-request-headers", DefaultAllowHeaders))

\* SetHeader keeping the case of the name: one entry per spelling
M_SetHeader(resHeaders, name, value) == Put(resHeaders, name, value)

\* The proxy copies proxyRes.headers onto the response, key by key in the
\* object's order, with res.setHeader, which keeps one value per lower-cased name.
SetHeader(resHeaders, name, value) == Put(resHeaders, LowerToken(name), value)

RECURSIVE WriteHeaders(_, _)
WriteHeaders(resHeaders, pairs) ==
    IF pairs = <<>> THEN resHeaders
    ELSE WriteHeaders(SetHeader(resHeaders, Head(pairs)[1], Head(pairs)[2]),
                      Tail(pairs))

----------------------------------------------------------------------------
(* app.options('/proxy') *)

\* OptionsHeaders answering every origin with the wildcard
M_OptionsHeaders(resHeaders, hdrs) ==
    SetHeader(
      SetHeader(
        SetHeader(
          SetHeader(resHeaders, "Access-Control-Allow-Origin", <<"*">>),
          "Access-Control-Allow-Methods", DefaultAllowMethods),
        "Access-Control-Allow-Headers",
        HeaderOr(hdrs, "access-control-request-headers", DefaultAllowHeaders)),
      "Access-Control-Max-Age", <<"86400">>)

OptionsHeaders(resHeaders, hdrs) ==
    SetHeader(
      SetHeader(
        SetHeader(
          SetHeader(resHeaders, "Access-Control-Allow-Origin",
                    HeaderOr(hdrs, "origin", <<"*">>)),
          "Access-Control-Allow-Methods", DefaultAllowMethods),
        "Access-Control-Allow-Headers",
        HeaderOr(hdrs, "access-control-request-headers", DefaultAllowHeaders)),
      "Access-Control-Max-Age", <<"86400">>)

----------------------------------------------------------------------------
(* deleteResponseHeadersMiddleware: the 'finish' listener *)

\* res.getHeader(name) || ''
GetHeaderOrEmpty(resHeaders, name) ==
    IF name \in DOMAIN resHeaders THEN resHeaders[name] ELSE <<>>

ResponseHeadersToDelete(resHeaders, e) ==
    SplitTrim(GetHeaderOrEmpty(resHeaders, "headers-to-delete-response"))
    \cup SplitTrim(e.RESPONSE_HEADERS_TO_DELETE)

\* res.removeHeader throws ERR_HTTP_HEADERS_SENT once the headers are sent
RemoveHeaderThrows(r, names) == r.sent /\ names # {}

RemoveHeaders(resHeaders, names) ==
    [h \in DOMAIN resHeaders \ {Key(ToLowerCase(name)) : name \in names} |->
        resHeaders[h]]

----------------------------------------------------------------------------
(* The responses of the destinations: status and headers in the order      *)
(* received, names lower-cased by Node.                                    *)

UpstreamResponses ==
    {[status |-> "200",
      headers |-> << <<"content-type", <<"application/json">>>> >>],
     [status |-> "404",
      headers |-> << <<"content-type", <<"text/html">>>>,
                     <<"access-control-allow-origin", <<"https://upstream.test">>>>,
                     <<"access-control-allow-methods", <<"GET">>>> >>],
     [status |-> "200",
      headers |-> << <<"x-upstream", <<"1">>>>,
                     <<"headers-to-delete-response",
                       <<"x-upstream", ",", " ", "Access-Control-Allow-Origin">>>> >>]}

----------------------------------------------------------------------------
(* State *)

\* a fresh response object: Express sets X-Powered-By; nothing is sent
NewResponse ==
    [status |-> "200", sent |-> FALSE,
     headers |-> [h \in {"x-powered-by"} |-> <<"Express">>]]

\* res.sendStatus(code): the status and a text body are sent
SendStatus(r, code) ==
    [status |-> code, sent |-> TRUE,
     headers |-> SetHeader(r.headers, "Content-Type", <<"text/plain">>)]

\* Express's default error handler, reached through next(err) or a throw
\* in a middleware: status 500 and an HTML body
ErrorResponse(r) ==
    [status |-> "500", sent |-> TRUE,
     headers |-> SetHeader(r.headers, "Content-Type", <<"text/html">>)]

NoUpstream == [sent |-> FALSE, origin |-> <<>>, path |-> <<>>, headers |-> EmptyObject]

Init ==
    /\ env \in Environments
    /\ pc = "idle"
    /\ client = NoRequest
    /\ headers = EmptyObject
    /\ gate = "none"
    /\ routerCalls = 0
    /\ finishHook = FALSE
    /\ upstream = NoUpstream
    /\ proxyRes = <<>>
    /\ res = NewResponse
    /\ errorLog = 0
    /\ crashed = FALSE

\* app.listen: a request arrives and enters the middleware stack
Receive ==
    /\ pc = "idle"
    /\ ~crashed
    /\ \E r \in Requests :
          /\ client' = r
          /\ headers' = r.headers
    /\ pc' = "route"
    /\ UNCHANGED <<env, gate, routerCalls, finishHook, upstream, proxyRes, res,
                   errorLog, crashed>>

\* OptionsHandler behind the access gate: a preflight without the token is
\* answered 401
M_OptionsHandler ==
    /\ pc = "route"
    /\ client.method = "OPTIONS"
    /\ IF ApiKeyDenied(client.query, headers, env)
       THEN /\ res' = SendStatus(res, "401")
            /\ gate' = "deny"
       ELSE /\ res' = SendStatus([res EXCEPT !.headers =
                                    OptionsHeaders(res.headers, headers)], "200")
            /\ gate' = "allow"
    /\ pc' = "done"
    /\ UNCHANGED <<env, client, headers, routerCalls, finishHook, upstream,
                   proxyRes, errorLog, crashed>>

\* app.options('/proxy', ...): the first layer a request meets
OptionsHandler ==
    /\ pc = "route"
    /\ client.method = "OPTIONS"
    /\ res' = SendStatus([res EXCEPT !.headers = OptionsHeaders(res.headers, headers)],
                         "200")
    /\ pc' = "done"
    /\ UNCHANGED <<env, client, headers, gate, routerCalls, finishHook, upstream,
                   proxyRes, errorLog, crashed>>

\* UrlParamsToHeadersMiddleware reached by OPTIONS requests too, as when the
\* stack is registered ahead of the OPTIONS route
M_UrlParamsToHeadersMiddleware ==
    /\ pc = "route"
    /\ headers' = UrlParamsToHeaders(client.query, headers)
    /\ pc' = "gate"
    /\ UNCHANGED <<env, client, gate, routerCalls, finishHook, upstream, proxyRes,
                   res, errorLog, crashed>>

\* app.use('/proxy', urlParamsToHeadersMiddleware)
UrlParamsToHeadersMiddleware ==
    /\ pc = "route"
    /\ client.method # "OPTIONS"
    /\ headers' = UrlParamsToHeaders(client.query, headers)
    /\ pc' = "gate"
    /\ UNCHANGED <<env, client, gate, routerCalls, finishHook, upstream, proxyRes,
                   res, errorLog, crashed>>

\* CheckApiKeyMiddleware without the return after sendStatus(401)
M_CheckApiKeyMiddleware ==
    /\ pc = "gate"
    /\ IF ApiKeyDenied(client.query, headers, env)
       THEN /\ res' = SendStatus(res, "401")
            /\ gate' = "deny"
       ELSE /\ gate' = "allow"
            /\ UNCHANGED res
    /\ pc' = "deleteRequest"
    /\ UNCHANGED <<env, client, headers, routerCalls, finishHook, upstream,
                   proxyRes, errorLog, crashed>>

\* app.use(checkApiKeyMiddleware)
CheckApiKeyMiddleware ==
    /\ pc = "gate"
    /\ IF ApiKeyDenied(client.query, headers, env)
       THEN /\ res' = SendStatus(res, "401")
            /\ gate' = "deny"
            /\ pc' = "done"
       ELSE /\ gate' = "allow"
            /\ pc' = "deleteRequest"
            /\ UNCHANGED res
    /\ UNCHANGED <<env, client, headers, routerCalls, finishHook, upstream,
                   proxyRes, errorLog, crashed>>

\* app.use(deleteRequestHeadersMiddleware)
DeleteRequestHeadersMiddleware ==
    /\ pc = "deleteRequest"
    /\ IF DeleteRequestHeadersThrows(client.query, headers)
       THEN /\ res' = ErrorResponse(res)
            /\ pc' = "done"
            /\ UNCHANGED headers
       ELSE /\ headers' = DeleteRequestHeaders(client.query, headers, env)
            /\ pc' = "deleteResponse"
            /\ UNCHANGED res
    /\ UNCHANGED <<env, client, gate, routerCalls, finishHook, upstream, proxyRes,
                   errorLog, crashed>>

\* app.use(deleteResponseHeadersMiddleware): registers the 'finish' listener
DeleteResponseHeadersMiddleware ==
    /\ pc = "deleteResponse"
    /\ finishHook' = TRUE
    /\ pc' = "proxy"
    /\ UNCHANGED <<env, client, headers, gate, routerCalls, upstream, proxyRes,
                   res, errorLog, crashed>>

\* ProxyMiddleware with a throw of router swallowed instead of passed to next
M_ProxyMiddleware ==
    /\ pc = "proxy"
    /\ routerCalls' = routerCalls + 1
    /\ IF RouterThrows(client.query, headers)
       THEN /\ pc' = "hung"
            /\ UNCHANGED <<upstream, res>>
       ELSE /\ upstream' = [sent    |-> TRUE,
                            origin  |-> Router(client.query, headers),
                            path    |-> PathRewrite(client.query, headers),
                            headers |-> OnProxyReq(headers)]
            /\ pc' = "upstream"
            /\ UNCHANGED res
    /\ UNCHANGED <<env, client, headers, gate, finishHook, proxyRes, errorLog,
                   crashed>>

\* app.use('/proxy', createProxyMiddleware(corsProxyOptions)): router, then
\* pathRewrite, then the outgoing request is built from req.headers, passed to
\* onProxyReq and sent.  A throw of router goes to next(err).
ProxyMiddleware ==
    /\ pc = "proxy"
    /\ routerCalls' = routerCalls + 1
    /\ IF RouterThrows(client.query, headers)
       THEN /\ res' = ErrorResponse(res)
            /\ pc' = "finish"
            /\ UNCHANGED upstream
       ELSE /\ upstream' = [sent    |-> TRUE,
                            origin  |-> Router(client.query, headers),
                            path    |-> PathRewrite(client.query, headers),
                            headers |-> OnProxyReq(headers)]
            /\ pc' = "upstream"
            /\ UNCHANGED res
    /\ UNCHANGED <<env, client, headers, gate, finishHook, proxyRes, errorLog,
                   crashed>>

\* The destination answers: onProxyRes, then the proxy writes the headers and
\* the status to the response and pipes the body.
UpstreamResponds ==
    /\ pc = "upstream"
    /\ \E r \in UpstreamResponses :
          /\ proxyRes' = r.headers
          /\ res' = [status  |-> r.status,
                     sent    |-> TRUE,
                     headers |-> WriteHeaders(res.headers,
                                              OnProxyRes(r.headers, headers))]
    /\ pc' = "finish"
    /\ UNCHANGED <<env, client, headers, gate, routerCalls, finishHook, upstream,
                   errorLog, crashed>>

\* The connection to the destination fails: onError logs the error and
\* writes nothing to the response.
UpstreamFails ==
    /\ pc = "upstream"
    /\ errorLog' = errorLog + 1
    /\ pc' = "hung"
    /\ UNCHANGED <<env, client, headers, gate, routerCalls, finishHook, upstream,
                   proxyRes, res, crashed>>

\* res emits 'finish' after the response is written: the listener of
\* deleteResponseHeadersMiddleware runs.  An exception it throws is caught
\* by nothing.
Finish ==
    /\ pc = "finish"
    /\ finishHook
    /\ IF RemoveHeaderThrows(res, ResponseHeadersToDelete(res.headers, env))
       THEN /\ crashed' = TRUE
            /\ UNCHANGED res
       ELSE /\ res' = [res EXCEPT !.headers =
                          RemoveHeaders(res.headers,
                                        ResponseHeadersToDelete(res.headers, env))]
            /\ UNCHANGED crashed
    /\ pc' = "done"
    /\ UNCHANGED <<env, client, headers, gate, routerCalls, finishHook, upstream,
                   proxyRes, errorLog>>

\* The exchange is over (or abandoned by the client): the request and response
\* objects are dropped and the server waits for the next request.
Release ==
    /\ pc \in {"done", "hung"}
    /\ ~crashed
    /\ pc' = "idle"
    /\ client' = NoRequest
    /\ headers' = EmptyObject
    /\ gate' = "none"
    /\ routerCalls' = 0
    /\ finishHook' = FALSE
    /\ upstream' = NoUpstream
    /\ proxyRes' = <<>>
    /\ res' = NewResponse
    /\ errorLog' = 0
    /\ UNCHANGED <<env, crashed>>

Next ==
    \/ Receive
    \/ OptionsHandler
    \/ UrlParamsToHeadersMiddleware
    \/ CheckApiKeyMiddleware
    \/ DeleteRequestHeadersMiddleware
    \/ DeleteResponseHeadersMiddleware
    \/ ProxyMiddleware
    \/ UpstreamResponds
    \/ UpstreamFails
    \/ Finish
    \/ Release

Spec == Init /\ [][Next]_vars

----------------------------------------------------------------------------
(* Vocabulary of the properties: what the client sent and what it got      *)

Preflight == client.method = "OPTIONS"

\* a secret is configured
SecretConfigured == env.PROXY_TOKEN # <<>>

\* the token the client supplied: the `token` query parameter when it is
\* non-empty, the `x-proxy-token` header otherwise
ClientToken ==
    IF "token" \in DOMAIN client.query /\ client.query["token"] # EmptyString
    THEN client.query["token"]
    ELSE IF "x-proxy-token" \in DOMAIN client.headers
         THEN client.headers["x-proxy-token"]
         ELSE Undefined

ClientTokenMatches == ClientToken = Str(env.PROXY_TOKEN)

\* the destination signal the client supplied, `url` before `x-url-destination`
ClientDestination ==
    IF "url" \in DOMAIN client.query /\ client.query["url"] # EmptyString
    THEN client.query["url"]
    ELSE IF "x-url-destination" \in DOMAIN client.headers
         THEN client.headers["x-url-destination"]
         ELSE Undefined

DestinationMissing ==
    /\ "url" \notin DOMAIN client.query
    /\ "x-url-destination" \notin DOMAIN client.headers

DestinationUnresolvable ==
    \/ DestinationMissing
    \/ ~URLParses(ClientDestination.s)

\* the exchange has ended with a response written to the client
Answered == pc \in {"finish", "done"} /\ res.sent

\* the response came from the destination through the proxy
Proxied == Answered /\ proxyRes # <<>>

----------------------------------------------------------------------------
\* C1: with a secret configured, a non-preflight request whose token equals the
\* secret is let through by the gate (and is not answered 401), and one whose
\* token is missing or differs is answered 401; with no secret configured every
\* request is let through, whatever token it carries.
C1_GateDecision ==
    /\ (~Preflight /\ pc \notin {"idle", "route", "gate"}) => gate # "none"
    /\ gate # "none" =>
          /\ ~SecretConfigured => gate = "allow"
          /\ (SecretConfigured /\ ClientTokenMatches) => gate = "allow"
          /\ (SecretConfigured /\ ~ClientTokenMatches) =>
                gate = "deny" /\ res.sent /\ res.status = "401"
          /\ gate = "allow" => res.status # "401"

\* a request with the matching token, with a secret configured, was forwarded
C1_Witness ==
    /\ SecretConfigured
    /\ ClientTokenMatches
    /\ gate = "allow"
    /\ upstream.sent

\* C2: a request denied with 401 has reached neither router nor pathRewrite,
\* has issued no upstream request and is at its end; and whenever the router
\* has run or an upstream request exists, the gate had let the request through.
C2_DenialTerminal ==
    /\ gate = "deny" =>
          /\ res.sent /\ res.status = "401"
          /\ routerCalls = 0
          /\ ~upstream.sent
          /\ pc = "done"
    /\ (routerCalls > 0 \/ upstream.sent) => gate = "allow"

\* a request that names a destination was denied
C2_Witness ==
    /\ gate = "deny"
    /\ pc = "done"
    /\ ~DestinationUnresolvable

\* C3: a request let through by the gate whose destination is missing or does
\* not parse as an absolute URL never has an upstream request issued, is never
\* left waiting, and its answer is status 500.
C3_ResolutionFailure ==
    (gate = "allow" /\ DestinationUnresolvable) =>
        /\ ~upstream.sent
        /\ pc \notin {"upstream", "hung"}
        /\ pc \in {"finish", "done"} => (res.sent /\ res.status = "500")

\* `url=not-a-url` reached the router and was answered 500
C3_Witness ==
    /\ gate = "allow"
    /\ ~DestinationMissing
    /\ DestinationUnresolvable
    /\ routerCalls = 1
    /\ res.sent /\ res.status = "500"

\* C4: an OPTIONS request to /proxy is answered 200 and never reaches the
\* router nor causes an upstream request, whatever it carries.
C4_PreflightShortCircuit ==
    Preflight =>
        /\ pc \in {"route", "done"}
        /\ routerCalls = 0
        /\ ~upstream.sent
        /\ pc = "done" => (res.sent /\ res.status = "200")

\* a preflight that names a destination and lacks the configured token
C4_Witness ==
    /\ Preflight
    /\ pc = "done"
    /\ res.status = "200"
    /\ ~DestinationUnresolvable
    /\ SecretConfigured /\ ~ClientTokenMatches

\* the value of a header if the request carries a non-empty one, else the default
EchoOrDefault(hdrs, name, default) ==
    IF name \in DOMAIN hdrs /\ hdrs[name].s # <<>> THEN hdrs[name].s ELSE default

\* the values a response carries under a header name, in any spelling
ValuesOf(resHeaders, name) ==
    {resHeaders[h] : h \in {x \in DOMAIN resHeaders : LowerToken(x) = name}}

SpellingsOf(resHeaders, name) == {x \in DOMAIN resHeaders : LowerToken(x) = name}

ListedIn(obj, key) ==
    IF key \in DOMAIN obj /\ obj[key].kind = "string"
    THEN SplitTrim(obj[key].s) ELSE {}

ClientDeleteNames ==
    ListedIn(client.headers, "headers-to-delete")
    \cup ListedIn(client.headers, "x-headers-delete")
    \cup ListedIn(client.query, "headers-delete")
    \cup SplitTrim(env.HEADERS_TO_DELETE)

\* C6 (as claimed): the request sent upstream carries no header named, in any
\* case, by the delete-list headers, the headers-delete query parameter or
\* HEADERS_TO_DELETE, in whatever combination these are present.  Stated for
\* the requests whose query parameters are the documented ones, so that no
\* query parameter is folded over a delete-list header.
C6_ListedHeadersNotForwarded ==
    (upstream.sent /\ DOMAIN client.query \subseteq {"url", "token", "headers-delete"}) =>
        \A name \in ClientDeleteNames :
            Key(ToLowerCase(name)) \notin DOMAIN upstream.headers

\* C7 (as claimed): the request sent upstream carries none of the carriers of
\* the delete-set: headers-to-delete, x-headers-delete, headers-delete.
C7_CarriersNotForwarded ==
    upstream.sent =>
        DOMAIN upstream.headers
            \cap {"headers-to-delete", "x-headers-delete", "headers-delete"} = {}

\* C8 (as claimed): when the gate lets a request through on a matching token,
\* the request sent upstream carries no x-proxy-token header, no token header,
\* and the path and query of the destination only.
C8_TokenNotForwarded ==
    (upstream.sent /\ SecretConfigured /\ ClientTokenMatches) =>
        /\ "x-proxy-token" \notin DOMAIN upstream.headers
        /\ "token" \notin DOMAIN upstream.headers
        /\ upstream.path = URLPathname(ClientDestination.s)
                           \o URLSearch(ClientDestination.s)

ResponseDeleteNames ==
    UNION {SplitTrim(proxyRes[i][2]) :
             i \in {j \in 1..Len(proxyRes) :
                      proxyRes[j][1] = "headers-to-delete-response"}}
    \cup SplitTrim(env.RESPONSE_HEADERS_TO_DELETE)

\* C10 (as claimed): the response of a proxied exchange, as the client
\* receives it, carries no header named by headers-to-delete-response or by
\* RESPONSE_HEADERS_TO_DELETE.
C10_ResponseDeletionEffective ==
    Proxied =>
        \A name \in ResponseDeleteNames :
            Key(ToLowerCase(name)) \notin DOMAIN res.headers


\* C11 (as claimed): once the proxy's error handler has run for a transport
\* failure, a response of the 500 class has been written to the client.
C11_TransportFailureAnswered ==
    errorLog > 0 => (res.sent /\ res.status \in {"500", "502", "504"})

\* the destination signals of the request
QueryDestination == client.query["url"]
HeaderDestination == client.headers["x-url-destination"]

BothDestinations ==
    /\ "url" \in DOMAIN client.query
    /\ "x-url-destination" \in DOMAIN client.headers

\* C12: when a request carries a destination in the `url` query parameter and
\* in the x-url-destination header, the upstream origin and the forwarded
\* path and query are both those of the query parameter's URL; and when the
\* query parameter's URL does not parse, nothing is sent, whatever the header.
C12_QueryDestinationWins ==
    BothDestinations =>
        /\ upstream.sent =>
              /\ upstream.origin = URLOrigin(QueryDestination.s)
              /\ upstream.path = URLPathname(QueryDestination.s)
                                 \o URLSearch(QueryDestination.s)
        /\ ~URLParses(QueryDestination.s) => ~upstream.sent

\* both signals name different, valid destinations and the request went to
\* the query parameter's
C12_Witness ==
    /\ BothDestinations
    /\ upstream.sent
    /\ HeaderDestination = Str(DestinationB)
    /\ upstream.origin = <<"https", ":", "//", "api.example.com">>
    /\ upstream.path = <<"/items", "?", "id=7">>

\* A URL in normal form, computed on the signal without the parser: the
\* fragment is cut, scheme and host are lower-cased, the scheme's default port
\* is dropped and an empty path is "/".
RECURSIVE BeforeFragment(_)
BeforeFragment(s) ==
    IF s = <<>> \/ Head(s) = "#" THEN <<>>
    ELSE <<Head(s)>> \o BeforeFragment(Tail(s))

NormalAuthority(s) ==
    IF Len(s) >= 6 /\ s[5] = ":"
    THEN IF s[6] = (IF LowerToken(s[1]) = "https" THEN "443" ELSE "80")
         THEN <<>> ELSE <<":", s[6]>>
    ELSE <<>>

RestAfterAuthority(s) ==
    IF Len(s) >= 6 /\ s[5] = ":" THEN SubSeq(s, 7, Len(s)) ELSE SubSeq(s, 5, Len(s))

NormalURL(signal) ==
    LET s == BeforeFragment(signal)
        rest == RestAfterAuthority(s)
    IN  <<LowerToken(s[1]), ":", "//", LowerToken(s[4])>>
        \o NormalAuthority(s)
        \o (IF rest = <<>> \/ Head(rest) = "?" THEN <<"/">> ELSE <<>>)
        \o rest

\* the query string of a signal: the token after "?"
QueryStrings(signal) ==
    {signal[i + 1] : i \in {j \in 1..(Len(signal) - 1) : signal[j] = "?"}}

\* C13: for a destination that parses as an absolute URL, the origin used
\* upstream followed by the forwarded path and query is the signal's URL in
\* normal form (same scheme, host, port, path and query), the origin is its
\* scheme, host and port, and the signal's query string is in the forwarded
\* path.
C13_RoundTrip ==
    upstream.sent =>
        /\ upstream.origin \o upstream.path = NormalURL(ClientDestination.s)
        /\ upstream.origin
              = <<LowerToken(ClientDestination.s[1]), ":", "//",
                  LowerToken(ClientDestination.s[4])>>
                \o NormalAuthority(ClientDestination.s)
        /\ \A q \in QueryStrings(ClientDestination.s) :
              \E i \in 1..Len(upstream.path) : upstream.path[i] = q

\* HTTP://API.Example.com:80/Items?a=1&b=2#top went to http://api.example.com
\* with /Items?a=1&b=2
C13_Witness ==
    /\ upstream.sent
    /\ ClientDestination = Str(DestinationC)
    /\ upstream.origin = <<"http", ":", "//", "api.example.com">>
    /\ upstream.path = <<"/Items", "?", "a=1&b=2">>

\* C14: the request sent upstream carries no x-url-destination,
\* x-forwarded-host, x-forwarded-proto or x-forwarded-for header and no `url`
\* header, and its path and query are those of the destination alone.
C14_DestinationSignalNotForwarded ==
    upstream.sent =>
        /\ DOMAIN upstream.headers
              \cap {"x-url-destination", "x-forwarded-host", "x-forwarded-proto",
                    "x-forwarded-for", "url"} = {}
        /\ upstream.origin \o upstream.path = NormalURL(ClientDestination.s)

\* a request that named its destination in the header and carried
\* x-forwarded-for was forwarded
C14_Witness ==
    /\ upstream.sent
    /\ "x-url-destination" \in DOMAIN client.headers
    /\ "x-forwarded-for" \in DOMAIN client.headers
    /\ "url" \notin DOMAIN client.query


\* C15 (as claimed): with a secret configured, an OPTIONS request to /proxy
\* whose token is missing or wrong is denied with 401 by the gate.
C15_GateBeforePreflight ==
    (Preflight /\ pc = "done" /\ SecretConfigured /\ ~ClientTokenMatches) =>
        (gate = "deny" /\ res.status = "401")

\* C15 (amended): the OPTIONS route is evaluated before the access gate: an
\* OPTIONS request to /proxy never meets the gate and is answered 200 by the
\* preflight responder, also when a secret is configured and the token is
\* missing or wrong.
C15_PreflightBeforeGate ==
    Preflight =>
        /\ gate = "none"
        /\ pc = "done" =>
              /\ res.status = "200"
              /\ "access-control-max-age" \in DOMAIN res.headers

\* a preflight carrying a wrong token, with a secret configured, got the
\* preflight answer
C15_Witness ==
    /\ Preflight /\ pc = "done"
    /\ SecretConfigured
    /\ ClientToken = Str(<<"wrong">>)
    /\ gate = "none"
    /\ res.status = "200"
    /\ "access-control-allow-origin" \in DOMAIN res.headers

\* C16 (as claimed): a request let through by the gate whose destination is
\* carried only by a valid x-url-destination header is, once the proxy has
\* handled it, forwarded to that destination, whatever the delete-set holds.
C16_HeaderDestinationResolved ==
    (/\ gate = "allow"
     /\ "url" \notin DOMAIN client.query
     /\ "x-url-destination" \in DOMAIN client.headers
     /\ URLParses(client.headers["x-url-destination"].s)
     /\ routerCalls > 0) =>
        /\ upstream.sent
        /\ upstream.origin = URLOrigin(client.headers["x-url-destination"].s)

\* the headers that are signals to the proxy
ControlHeaders ==
    {"x-url-destination", "x-forwarded-host", "x-forwarded-proto",
     "x-forwarded-for", "headers-to-delete", "x-headers-delete"}

\* the lower-cased names the three delete sources list
ListedKeys == {Key(ToLowerCase(name)) : name \in ClientDeleteNames}

\* the same, with the lists of query parameters folded over a delete-list header
ListedOrFoldedKeys ==
    ListedKeys
    \cup {Key(ToLowerCase(name)) :
            name \in ListedIn(client.query, "headers-to-delete")
                     \cup ListedIn(client.query, "x-headers-delete")}

\* the header names the query parameters are folded into
FoldedNames == {LowerToken(k) : k \in DOMAIN client.query \ {"url", "token"}}

C18_NoFatalFailure == ~crashed

\* the request carries no delete signal and none is configured
NoDeleteSignal ==
    /\ DOMAIN client.query \subseteq {"url", "token"}
    /\ DOMAIN client.headers \cap {"headers-to-delete", "x-headers-delete"} = {}
    /\ env.HEADERS_TO_DELETE = <<>>

\* C19 (as claimed): the request-side deletion never raises: every request the
\* gate lets through is passed on to the next middleware, which registers
\* its listener; and with no delete signal the headers are left as they were.
C19_DeletionNeverFails ==
    /\ (gate = "allow" /\ pc \notin {"deleteRequest", "deleteResponse"}) => finishHook
    /\ (pc = "deleteResponse" /\ NoDeleteSignal) => headers = client.headers

BothTokens ==
    /\ "token" \in DOMAIN client.query
    /\ "x-proxy-token" \in DOMAIN client.headers

\* C20 (as claimed): with a secret configured and both a `token` query
\* parameter and an x-proxy-token header present, the request is let through
\* exactly when the query parameter equals the secret.
C20_QueryTokenAlone ==
    (SecretConfigured /\ BothTokens /\ gate # "none") =>
        /\ client.query["token"] = Str(env.PROXY_TOKEN) => gate = "allow"
        /\ client.query["token"] # Str(env.PROXY_TOKEN) =>
              (gate = "deny" /\ res.status = "401")

\* C20 (amended): with both present, a non-empty `token` query parameter alone
\* decides: the request is let through exactly when it equals the secret,
\* whatever the header holds; an empty `token=` counts as absent and the
\* header decides.
C20_NonEmptyQueryTokenAlone ==
    (SecretConfigured /\ BothTokens /\ gate # "none") =>
        IF client.query["token"] # EmptyString
        THEN /\ client.query["token"] = Str(env.PROXY_TOKEN) => gate = "allow"
             /\ client.query["token"] # Str(env.PROXY_TOKEN) =>
                   (gate = "deny" /\ res.status = "401")
        ELSE /\ client.headers["x-proxy-token"] = Str(env.PROXY_TOKEN) =>
                   gate = "allow"
             /\ client.headers["x-proxy-token"] # Str(env.PROXY_TOKEN) =>
                   (gate = "deny" /\ res.status = "401")

\* a wrong query token was denied although the header held the secret
C20_Witness ==
    /\ SecretConfigured /\ BothTokens
    /\ client.query["token"] = Str(<<"wrong">>)
    /\ client.headers["x-proxy-token"] = Str(env.PROXY_TOKEN)
    /\ gate = "deny"
    /\ res.status = "401"

====
